---- MODULE Spec2Model ----
(***************************************************************************)
(* The todo service: four axum handlers (endpoints.rs) over the           *)
(* SqliteTodoProvider (db.rs), with the error translation of app.rs.      *)
(* Requests run concurrently; every provider call is one SQL statement,   *)
(* executed by the storage engine as one step.                            *)
(***************************************************************************)
EXTENDS Integers, Sequences, FiniteSets

VARIABLES
    todos,    \* the rows of table "todos", in insertion order: <<id, description, done>>
    seq,      \* the largest id the storage engine has assigned so far
    req,      \* per client connection: the request, its provider call and its response
    created,  \* history: the id returned by each successful insert, in order
    updated   \* history: the ids a successful update has written

vars == <<todos, seq, req, created, updated>>

\* ------------------------------------------------------------------ bounds

MaxTodos == 2

Clients == {"c1", "c2"}

Descs == {"a", "b"}

Ids == 1 .. (MaxTodos + 1)

\* ------------------------------------------------------------ data model

Todo(id, description, done) ==
    [id |-> id, description |-> description, done |-> done]

\* query_as!(Todo, ...): one result row, by column, into the struct
FromRow(row) == Todo(row[1], row[2], row[3])

RECURSIVE FromRows(_)
FromRows(rows) ==
    IF rows = <<>> THEN <<>>
    ELSE <<FromRow(Head(rows))>> \o FromRows(Tail(rows))

Ok(val) == [tag |-> "Ok", val |-> val]

Err == [tag |-> "Err", val |-> <<>>]

\* ------------------------------------------------------- storage engine

DefaultDone == FALSE

NextId(t, s) == s + 1

Where(t, id) == SelectSeq(t, LAMBDA row : row[1] = id)

RECURSIVE RowidOrder(_)
RowidOrder(t) ==
    IF t = <<>> THEN <<>>
    ELSE LET k == CHOOSE k \in 1 .. Len(t) :
                    \A j \in 1 .. Len(t) :
                        t[k][1] < t[j][1] \/ (t[k][1] = t[j][1] /\ k <= j)
         IN  <<t[k]>> \o
             RowidOrder(SubSeq(t, 1, k - 1) \o SubSeq(t, k + 1, Len(t)))

\* fetch_all / fetch_optional / fetch_one over the rows a statement returns
fetch_all(rows) == Ok(FromRows(rows))

fetch_optional(rows) ==
    IF rows = <<>> THEN Ok(<<>>) ELSE Ok(<<FromRow(Head(rows))>>)

fetch_one(rows) ==
    IF rows = <<>> THEN Err ELSE Ok(<<FromRow(Head(rows))>>)

\* sqlx::Error -> ProviderError, raised by `?` when the backend fails
StorageFailure(t, s) == [result |-> Err, todos |-> t, seq |-> s]

\* ----------------------------------------------------- SqliteTodoProvider

\* fault variant: select * from todos where done = 0
db_get_todos_open_only(t, s) ==
    [result |-> fetch_all(RowidOrder(SelectSeq(t, LAMBDA row : ~row[3]))),
     todos |-> t, seq |-> s]

\* select * from todos
db_get_todos(t, s) ==
    [result |-> fetch_all(RowidOrder(t)), todos |-> t, seq |-> s]

\* fault variant: fetch_one in place of fetch_optional
db_get_todo_fetch_one(t, s, id) ==
    [result |-> fetch_one(Where(t, id)), todos |-> t, seq |-> s]

\* fault variant: the where clause is missing
db_get_todo_no_where(t, s, id) ==
    [result |-> fetch_optional(RowidOrder(t)), todos |-> t, seq |-> s]

\* select * from todos where id=?1
db_get_todo(t, s, id) ==
    [result |-> fetch_optional(Where(t, id)), todos |-> t, seq |-> s]

\* fault variant: insert into todos (id, description) values (1, ?1) returning *
db_add_todo_fixed_id(t, s, description) ==
    LET row == <<1, description, DefaultDone>>
    IN  [result |-> fetch_one(<<row>>), todos |-> Append(t, row), seq |-> row[1]]

\* insert into todos (description) values (?1) returning *
db_add_todo(t, s, description) ==
    LET row == <<NextId(t, s), description, DefaultDone>>
    IN  [result |-> fetch_one(<<row>>), todos |-> Append(t, row), seq |-> row[1]]

\* fault variant: update todos set description=?1 where id=?3 returning ...
db_update_todo_keep_done(t, s, id, description, done) ==
    LET t2 == [k \in 1 .. Len(t) |->
                  IF t[k][1] = id THEN <<t[k][1], description, t[k][3]>> ELSE t[k]]
    IN  [result |-> fetch_one(Where(t2, id)), todos |-> t2, seq |-> s]

\* fault variant: insert or replace into todos (id, description, done) ... returning ...
db_update_todo_upsert(t, s, id, description, done) ==
    LET t2 == IF Where(t, id) = <<>>
              THEN Append(t, <<id, description, done>>)
              ELSE [k \in 1 .. Len(t) |->
                      IF t[k][1] = id THEN <<t[k][1], description, done>> ELSE t[k]]
    IN  [result |-> fetch_one(Where(t2, id)), todos |-> t2, seq |-> s]

\* fault variant: update todos set description=?1, done=?2 returning ...
db_update_todo_no_where(t, s, id, description, done) ==
    LET t2 == [k \in 1 .. Len(t) |-> <<t[k][1], description, done>>]
    IN  [result |-> fetch_one(t2), todos |-> t2, seq |-> s]

\* fault variant: select * from todos where id=?3, then the update as a second statement
db_update_todo_select_first(t, s, id, description, done) ==
    LET t2 == [k \in 1 .. Len(t) |->
                  IF t[k][1] = id THEN <<t[k][1], description, done>> ELSE t[k]]
    IN  [result |-> fetch_one(Where(t, id)), todos |-> t2, seq |-> s]

\* update todos set description=?1, done=?2 where id=?3 returning id, description, done
db_update_todo(t, s, id, description, done) ==
    LET t2 == [k \in 1 .. Len(t) |->
                  IF t[k][1] = id THEN <<t[k][1], description, done>> ELSE t[k]]
    IN  [result |-> fetch_one(Where(t2, id)), todos |-> t2, seq |-> s]

\* ------------------------------------------------------ error translation

OK == 200

CREATED == 201

NOT_FOUND == 404

INTERNAL_SERVER_ERROR == 500

EmptyBody == [kind |-> "empty", items |-> <<>>]

Serialize(todo) ==
    [id |-> todo.id, description |-> todo.description, done |-> todo.done]

RECURSIVE SerializeAll(_)
SerializeAll(ts) ==
    IF ts = <<>> THEN <<>>
    ELSE <<Serialize(Head(ts))>> \o SerializeAll(Tail(ts))

\* Json(todo) / Json(Vec<Todo>) as a response body
Json(todo) == [kind |-> "object", items |-> <<Serialize(todo)>>]

JsonArray(ts) == [kind |-> "array", items |-> SerializeAll(ts)]

Response(status, body) == [status |-> status, body |-> body]

\* fault variant: the two match arms exchanged
into_response_swapped(err) ==
    IF err = "NotFound"
    THEN Response(INTERNAL_SERVER_ERROR, EmptyBody)
    ELSE Response(NOT_FOUND, EmptyBody)

\* impl IntoResponse for AppError
into_response(err) ==
    IF err = "NotFound"
    THEN Response(NOT_FOUND, EmptyBody)
    ELSE Response(INTERNAL_SERVER_ERROR, EmptyBody)

\* impl From<ProviderError> for AppError
FromProviderError(result) == "InternalServerError"

\* --------------------------------------------------------------- handlers
\* What each handler answers once its provider call has returned `result`.

get_todos_response(result) ==
    IF result.tag = "Err" THEN into_response(FromProviderError(result))
    ELSE Response(OK, JsonArray(result.val))

get_todo_response(result) ==
    IF result.tag = "Err" THEN into_response(FromProviderError(result))
    ELSE IF result.val = <<>> THEN into_response("NotFound")
    ELSE Response(OK, Json(result.val[1]))

\* fault variant: Ok(Json(todo)), without StatusCode::CREATED
add_todo_response_ok(result) ==
    IF result.tag = "Err" THEN into_response(FromProviderError(result))
    ELSE Response(OK, Json(result.val[1]))

\* fault variant: Ok(StatusCode::CREATED), without the item
add_todo_response_no_body(result) ==
    IF result.tag = "Err" THEN into_response(FromProviderError(result))
    ELSE Response(CREATED, EmptyBody)

add_todo_response(result) ==
    IF result.tag = "Err" THEN into_response(FromProviderError(result))
    ELSE Response(CREATED, Json(result.val[1]))

update_todo_response(result) ==
    IF result.tag = "Err" THEN into_response(FromProviderError(result))
    ELSE Response(OK, Json(result.val[1]))

\* ------------------------------------------------------------------ state

Call(fn, id, description, done) ==
    [fn |-> fn, id |-> id, description |-> description, done |-> done]

Idle ==
    [pc |-> "idle", op |-> "none", id |-> 0, description |-> "", done |-> FALSE,
     calls |-> <<>>, fault |-> FALSE, result |-> [tag |-> "None", val |-> <<>>],
     response |-> Response(0, EmptyBody)]

Responded(op, id, description, done, calls, fault, result, response) ==
    [pc |-> "responded", op |-> op, id |-> id, description |-> description,
     done |-> done, calls |-> calls, fault |-> fault, result |-> result,
     response |-> response]

Init ==
    /\ todos = <<>>
    /\ seq = 0
    /\ req = [c \in Clients |-> Idle]
    /\ created = <<>>
    /\ updated = {}

\* GET /todos
get_todos(c) ==
    /\ req[c].pc = "idle"
    /\ \E fail \in BOOLEAN :
          LET out == IF fail THEN StorageFailure(todos, seq)
                     ELSE db_get_todos(todos, seq)
          IN  /\ req' = [req EXCEPT ![c] =
                    Responded("get_todos", 0, "", FALSE,
                              <<Call("get_todos", 0, "", FALSE)>>,
                              fail, out.result, get_todos_response(out.result))]
              /\ todos' = out.todos
              /\ seq' = out.seq
    /\ UNCHANGED <<created, updated>>

\* GET /todos/:id
get_todo(c) ==
    /\ req[c].pc = "idle"
    /\ \E id \in Ids, fail \in BOOLEAN :
          LET out == IF fail THEN StorageFailure(todos, seq)
                     ELSE db_get_todo(todos, seq, id)
          IN  /\ req' = [req EXCEPT ![c] =
                    Responded("get_todo", id, "", FALSE,
                              <<Call("get_todo", id, "", FALSE)>>,
                              fail, out.result, get_todo_response(out.result))]
              /\ todos' = out.todos
              /\ seq' = out.seq
    /\ UNCHANGED <<created, updated>>

\* POST /todos
add_todo(c) ==
    /\ req[c].pc = "idle"
    /\ Len(todos) < MaxTodos
    /\ \E description \in Descs, fail \in BOOLEAN :
          LET out == IF fail THEN StorageFailure(todos, seq)
                     ELSE db_add_todo(todos, seq, description)
          IN  /\ req' = [req EXCEPT ![c] =
                    Responded("add_todo", 0, description, FALSE,
                              <<Call("add_todo", 0, description, FALSE)>>,
                              fail, out.result, add_todo_response(out.result))]
              /\ todos' = out.todos
              /\ seq' = out.seq
              /\ created' = IF out.result.tag = "Ok"
                            THEN Append(created, out.result.val[1].id)
                            ELSE created
    /\ UNCHANGED updated

\* PUT /todos/:id
update_todo(c) ==
    /\ req[c].pc = "idle"
    /\ \E id \in Ids, description \in Descs, done \in BOOLEAN, fail \in BOOLEAN :
          LET out == IF fail THEN StorageFailure(todos, seq)
                     ELSE db_update_todo(todos, seq, id, description, done)
          IN  /\ req' = [req EXCEPT ![c] =
                    Responded("update_todo", id, description, done,
                              <<Call("update_todo", id, description, done)>>,
                              fail, out.result, update_todo_response(out.result))]
              /\ todos' = out.todos
              /\ seq' = out.seq
              /\ updated' = IF out.result.tag = "Ok"
                            THEN updated \cup {id}
                            ELSE updated
    /\ UNCHANGED created

\* the client reads the response; its connection takes the next request
Receive(c) ==
    /\ req[c].pc = "responded"
    /\ req' = [req EXCEPT ![c] = Idle]
    /\ UNCHANGED <<todos, seq, created, updated>>

Next ==
    \E c \in Clients :
        \/ get_todos(c)
        \/ get_todo(c)
        \/ add_todo(c)
        \/ update_todo(c)
        \/ Receive(c)

Spec == Init /\ [][Next]_vars

\* ------------------------------------------------------------ properties

IdsOf(t) == {t[k][1] : k \in 1 .. Len(t)}

Elems(q) == {q[k] : k \in 1 .. Len(q)}

\* client c's handler `op` runs in this step: provider call and response
Step(c, op) ==
    /\ req[c].pc = "idle"
    /\ req'[c].pc = "responded"
    /\ req'[c].op = op

\* client c holds the response of a finished request `op`
Holds(c, op) == req[c].pc = "responded" /\ req[c].op = op

Item(r) == r.response.body.items[1]

C2_UniqueIds ==
    /\ \A k \in 1 .. Len(created) : created[k] \in Int /\ created[k] > 0
    /\ \A j, k \in 1 .. Len(created) : j # k => created[j] # created[k]
    /\ \A c \in Clients :
          (Holds(c, "add_todo") /\ req[c].result.tag = "Ok") =>
             /\ Item(req[c]).id > 0
             /\ Item(req[c]).id \in Elems(created)
    /\ \A c, d \in Clients :
          (/\ c # d
           /\ Holds(c, "add_todo") /\ req[c].result.tag = "Ok"
           /\ Holds(d, "add_todo") /\ req[d].result.tag = "Ok") =>
             Item(req[c]).id # Item(req[d]).id
    /\ \A j, k \in 1 .. Len(todos) : j # k => todos[j][1] # todos[k][1]

C2_Witness ==
    /\ Len(todos) = 2
    /\ \A c \in Clients : Holds(c, "add_todo") /\ req[c].result.tag = "Ok"

\* C3: GET /todos/{id} for an id that storage does not hold: the provider
\* returns Ok(None), not an error, and the handler answers 404, empty body.
C3_AbsentIsNotFound ==
    [][\A c \in Clients :
          (/\ Step(c, "get_todo")
           /\ req'[c].id \notin IdsOf(todos)
           /\ ~req'[c].fault) =>
             /\ req'[c].result = Ok(<<>>)
             /\ req'[c].response = [status |-> 404, body |-> EmptyBody]]_vars

C3_Witness ==
    \E c \in Clients :
        /\ Holds(c, "get_todo")
        /\ req[c].id \notin IdsOf(todos)
        /\ ~req[c].fault
        /\ req[c].response.status = 404
        /\ todos # <<>>

\* the stored row with this id, as the item a response carries
Stored(t, id) == Serialize(FromRow(Head(Where(t, id))))

\* C4 as stated: GET /todos/{id} of a created item answers 200 with the body
\* of that item's create response.
C4_GetEqualsCreateResponse ==
    [][\A c, h \in Clients :
          (/\ Holds(h, "add_todo") /\ req[h].result.tag = "Ok"
           /\ Step(c, "get_todo")
           /\ req'[c].id = Item(req[h]).id
           /\ ~req'[c].fault) =>
             req'[c].response = [status |-> 200, body |-> req[h].response.body]]_vars

\* C4 amended: GET /todos/{id} of a created item answers 200 with the id of
\* the create response and the row as stored now, which is the body of the
\* create response as long as no update of that id has succeeded; the read
\* leaves storage as it was, so repeating it returns the same body.
C4_GetReturnsStoredItem ==
    [][\A c, h \in Clients :
          (/\ Holds(h, "add_todo") /\ req[h].result.tag = "Ok"
           /\ Step(c, "get_todo")
           /\ req'[c].id = Item(req[h]).id
           /\ ~req'[c].fault) =>
             /\ req'[c].response.status = 200
             /\ req'[c].response.body.kind = "object"
             /\ Len(req'[c].response.body.items) = 1
             /\ Item(req'[c]).id = Item(req[h]).id
             /\ Item(req'[c]) = Stored(todos, req'[c].id)
             /\ (req'[c].id \notin updated =>
                    req'[c].response.body = req[h].response.body)
             /\ todos' = todos]_vars

C4_Witness ==
    \E c, h \in Clients :
        /\ Holds(h, "add_todo") /\ req[h].result.tag = "Ok"
        /\ Holds(c, "get_todo") /\ ~req[c].fault
        /\ req[c].id = Item(req[h]).id
        /\ req[c].id \in updated
        /\ req[c].response.status = 200
        /\ req[c].response.body # req[h].response.body

\* C5: a PUT /todos/i of a created item with (d', b') answers 200 with
\* {i, d', b'} and stores exactly that, and a GET /todos/i answers 200 with
\* the stored row, so the GET that follows returns i, d', b'.
C5_UpdateRoundTrip ==
    [][\A c \in Clients :
          /\ (/\ Step(c, "update_todo")
              /\ req'[c].id \in Elems(created)
              /\ ~req'[c].fault) =>
                LET r == req'[c]
                    item == [id |-> r.id, description |-> r.description,
                             done |-> r.done]
                IN  /\ r.result.tag = "Ok"
                    /\ r.response = [status |-> 200,
                                     body |-> [kind |-> "object", items |-> <<item>>]]
                    /\ Len(Where(todos', r.id)) = 1
                    /\ Stored(todos', r.id) = item
          /\ (/\ Step(c, "get_todo")
              /\ req'[c].id \in Elems(created)
              /\ ~req'[c].fault) =>
                req'[c].response =
                    [status |-> 200,
                     body |-> [kind |-> "object",
                               items |-> <<Stored(todos, req'[c].id)>>]]]_vars

C5_Witness ==
    \E c, g \in Clients :
        /\ Holds(c, "update_todo") /\ req[c].result.tag = "Ok"
        /\ req[c].done /\ req[c].description = "b"
        /\ Holds(g, "get_todo") /\ req[g].id = req[c].id
        /\ req[g].response.status = 200
        /\ Item(req[g]) = [id |-> req[c].id, description |-> "b", done |-> TRUE]

\* C6: a successful GET /todos answers 200 with exactly the stored items,
\* each once, and the number of stored items is always the number of
\* creates that have succeeded.
C6_ListIsStorage ==
    /\ [](Len(todos) = Len(created))
    /\ [][\A c \in Clients :
             (Step(c, "get_todos") /\ ~req'[c].fault) =>
                LET body == req'[c].response.body IN
                /\ req'[c].response.status = 200
                /\ body.kind = "array"
                /\ Len(body.items) = Len(todos)
                /\ Len(body.items) = Len(created)
                /\ Cardinality(Elems(body.items)) = Len(body.items)
                /\ Elems(body.items) =
                      {Serialize(FromRow(todos[k])) : k \in 1 .. Len(todos)}]_vars

C6_Witness ==
    \E c \in Clients :
        /\ Holds(c, "get_todos") /\ ~req[c].fault
        /\ Len(req[c].response.body.items) = 2
        /\ \E k \in 1 .. 2 : req[c].response.body.items[k].done
        /\ updated # {}

\* C7: a PUT /todos/{id} whose id matches no row fails at the provider with
\* an error, is answered 500, and leaves storage unchanged.
C7_UpdateOfAbsentFails ==
    [][\A c \in Clients :
          (Step(c, "update_todo") /\ req'[c].id \notin IdsOf(todos)) =>
             /\ req'[c].result = Err
             /\ req'[c].response = [status |-> 500, body |-> EmptyBody]
             /\ todos' = todos
             /\ seq' = seq]_vars

C7_Witness ==
    \E c \in Clients :
        /\ Holds(c, "update_todo")
        /\ ~req[c].fault
        /\ req[c].id \notin IdsOf(todos)
        /\ req[c].response.status = 500
        /\ todos # <<>>

\* C8: every response is 200 or 201 with a JSON body (the provider call
\* succeeded), 404 with an empty body (GET /todos/{id}, provider returned
\* absent) or 500 with an empty body (exactly when the provider call
\* returned an error); each handler calls the provider exactly once.
C8_ResponseShapes ==
    \A c \in Clients :
        req[c].pc = "responded" =>
            LET r == req[c] IN
            /\ Len(r.calls) = 1
            /\ r.calls[1].fn = r.op
            /\ (r.result.tag = "Err") <=> (r.response.status = 500)
            /\ \/ /\ r.response.status \in {200, 201}
                  /\ r.response.body.kind \in {"object", "array"}
                  /\ r.result.tag = "Ok"
                  /\ r.op = "get_todos" \/ Len(r.result.val) = 1
               \/ /\ r.response.status = 404
                  /\ r.response.body = EmptyBody
                  /\ r.op = "get_todo"
                  /\ r.result = Ok(<<>>)
               \/ /\ r.response.status = 500
                  /\ r.response.body = EmptyBody
                  /\ r.result = Err

C8_Witness ==
    \E c, d \in Clients :
        /\ Holds(c, "get_todos") /\ req[c].fault
        /\ req[c].response = [status |-> 500, body |-> EmptyBody]
        /\ Holds(d, "get_todo") /\ req[d].response.status = 404

C10_UpdateFrame ==
    [][/\ Len(todos') >= Len(todos)
       /\ \A k \in 1 .. Len(todos) : todos'[k][1] = todos[k][1]
       /\ \A c \in Clients :
             (Step(c, "update_todo") /\ req'[c].result.tag = "Ok") =>
                /\ Len(todos') = Len(todos)
                /\ IdsOf(todos') = IdsOf(todos)
                /\ seq' = seq
                /\ \A k \in 1 .. Len(todos) :
                      IF todos[k][1] = req'[c].id
                      THEN todos'[k] =
                              <<todos[k][1], req'[c].description, req'[c].done>>
                      ELSE todos'[k] = todos[k]]_vars

C10_Witness ==
    \E c \in Clients :
        /\ Holds(c, "update_todo") /\ req[c].result.tag = "Ok"
        /\ req[c].id = 1
        /\ Len(todos) = 2
        /\ todos[1] = <<1, "b", TRUE>>
        /\ todos[2] = <<2, "a", FALSE>>

\* C11: every provider call takes effect as one step of one request: a row
\* changes only in a successful update of its id, to the (description, done)
\* of that one request; a row appears only in a successful create, as
\* (d, false); and the body of a successful update is the row as that
\* update wrote it, whatever a concurrent update of the same id does later.
C11_AtomicWrites ==
    /\ [](\A c \in Clients :
             (Holds(c, "update_todo") /\ req[c].result.tag = "Ok") =>
                req[c].response.body =
                   [kind |-> "object",
                    items |-> <<[id |-> req[c].id,
                                 description |-> req[c].description,
                                 done |-> req[c].done]>>])
    /\ [][/\ \A k \in 1 .. Len(todos') :
                \/ k <= Len(todos) /\ todos'[k] = todos[k]
                \/ /\ k <= Len(todos)
                   /\ \E c \in Clients :
                         /\ Step(c, "update_todo")
                         /\ req'[c].result.tag = "Ok"
                         /\ todos[k][1] = req'[c].id
                         /\ todos'[k] =
                               <<req'[c].id, req'[c].description, req'[c].done>>
                \/ /\ k = Len(todos) + 1
                   /\ \E c \in Clients :
                         /\ Step(c, "add_todo")
                         /\ req'[c].result.tag = "Ok"
                         /\ todos'[k][2] = req'[c].description
                         /\ todos'[k][3] = FALSE
          /\ \A c \in Clients :
                (Step(c, "update_todo") /\ req'[c].result.tag = "Ok") =>
                   /\ Len(Where(todos', req'[c].id)) = 1
                   /\ Item(req'[c]) = Stored(todos', req'[c].id)]_vars

C11_Witness ==
    \E c, d \in Clients :
        /\ c # d
        /\ Holds(c, "update_todo") /\ req[c].result.tag = "Ok"
        /\ Holds(d, "update_todo") /\ req[d].result.tag = "Ok"
        /\ req[c].id = req[d].id
        /\ req[c].description # req[d].description
        /\ req[c].done # req[d].done
        /\ Stored(todos, req[d].id) = Item(req[d])
        /\ Stored(todos, req[c].id) # Item(req[c])

====
